---- MODULE Spec2Model ----
(***************************************************************************)
(* A model of app/main.py, the product-feed validator: validate_records   *)
(* (header check, the per-record rule battery, the summary) together with *)
(* the helpers it calls (parse_price, is_future_date, _push_issue) and    *)
(* the regular expressions and field tables it reads.                     *)
(*                                                                         *)
(* A Python str is a sequence of one-character strings, so that strip(),  *)
(* lower(), split(), the regular expressions and the numeric parses are   *)
(* computed on the characters as the code computes them.  A Python None   *)
(* is the value None for strings and NoRow for a row index.               *)
(***************************************************************************)
EXTENDS Integers, Sequences, FiniteSets, TLC

\* ------------------------------------------------------------------ bounds
MaxRecords == 3
\* the longest feed of a call when two calls are under way
MaxRunRecords == 2

\* ------------------------------------------------------------- characters
DIGITS == <<"0", "1", "2", "3", "4", "5", "6", "7", "8", "9">>
UPPERS == <<"A", "B", "C", "D", "E", "F", "G", "H", "I", "J", "K", "L", "M",
            "N", "O", "P", "Q", "R", "S", "T", "U", "V", "W", "X", "Y", "Z">>
LOWERS == <<"a", "b", "c", "d", "e", "f", "g", "h", "i", "j", "k", "l", "m",
            "n", "o", "p", "q", "r", "s", "t", "u", "v", "w", "x", "y", "z">>

Range(f) == {f[i] : i \in DOMAIN f}

Digit == Range(DIGITS)
Upper == Range(UPPERS)
Lower == Range(LOWERS)
\* what str.strip(), str.split() and the pattern \s take for white space
Space == {" ", "\t", "\n", "\r", "\f"}

None == <<"<None>">>
NoRow == -1

IndexOf(seq, c) == CHOOSE i \in DOMAIN seq : seq[i] = c

\* str.lower() on one character
LowerChar(c) == IF c \in Upper THEN LOWERS[IndexOf(UPPERS, c)] ELSE c

\* str.lower()
ToLower(s) == [i \in DOMAIN s |-> LowerChar(s[i])]

\* str.isupper(): some cased character, and no lower-case one
IsUpper(s) == /\ \E i \in DOMAIN s : s[i] \in Upper
              /\ \A i \in DOMAIN s : s[i] \notin Lower

RECURSIVE LStrip(_)
LStrip(s) == IF s # <<>> /\ Head(s) \in Space THEN LStrip(Tail(s)) ELSE s

RECURSIVE RStrip(_)
RStrip(s) ==
    IF s # <<>> /\ s[Len(s)] \in Space THEN RStrip(SubSeq(s, 1, Len(s) - 1)) ELSE s

\* str.strip()
Strip(s) == RStrip(LStrip(s))

\* s[:n]
Prefix(s, n) == SubSeq(s, 1, IF Len(s) < n THEN Len(s) ELSE n)

\* sep.join(parts)
RECURSIVE Join(_, _)
Join(sep, parts) ==
    IF parts = <<>> THEN <<>>
    ELSE IF Len(parts) = 1 THEN parts[1]
    ELSE parts[1] \o sep \o Join(sep, Tail(parts))

\* str.split(): the maximal runs of non-space characters
RECURSIVE SplitFrom(_, _, _)
SplitFrom(s, i, cur) ==
    IF i > Len(s) THEN (IF cur = <<>> THEN <<>> ELSE <<cur>>)
    ELSE IF s[i] \in Space
         THEN (IF cur = <<>> THEN <<>> ELSE <<cur>>) \o SplitFrom(s, i + 1, <<>>)
         ELSE SplitFrom(s, i + 1, Append(cur, s[i]))

Split(s) == SplitFrom(s, 1, <<>>)

\* str.split(sep) for a one-character separator: empty parts are kept
RECURSIVE SplitOnFrom(_, _, _, _)
SplitOnFrom(s, sep, i, cur) ==
    IF i > Len(s) THEN <<cur>>
    ELSE IF s[i] = sep THEN <<cur>> \o SplitOnFrom(s, sep, i + 1, <<>>)
         ELSE SplitOnFrom(s, sep, i + 1, Append(cur, s[i]))

SplitOn(s, sep) == SplitOnFrom(s, sep, 1, <<>>)

\* the order of str comparison (code points), for the characters of a date
CharOrd(c) == IF c \in Digit THEN 10 + IndexOf(DIGITS, c)
              ELSE IF c = "-" THEN 5
              ELSE IF c \in Upper THEN 30 + IndexOf(UPPERS, c)
              ELSE IF c \in Lower THEN 70 + IndexOf(LOWERS, c)
              ELSE 0

\* a >= b on str
RECURSIVE StrGeq(_, _)
StrGeq(a, b) ==
    IF b = <<>> THEN TRUE
    ELSE IF a = <<>> THEN FALSE
    ELSE IF CharOrd(Head(a)) # CharOrd(Head(b)) THEN CharOrd(Head(a)) > CharOrd(Head(b))
    ELSE StrGeq(Tail(a), Tail(b))

\* ---------------------------------------------------- regular expressions
\* A pattern is a tree; Ends(re, s, P, ic) is the set of positions at which a
\* match of re that starts at a position of P can end (a position is the
\* index of the next character to read).  ic is re.IGNORECASE.
Cls(set) == [t |-> "cls", c |-> set]
NotCls(set) == [t |-> "ncls", c |-> set]
Lit(c) == Cls({c})
Cat(rs) == [t |-> "cat", rs |-> rs]
Alt(rs) == [t |-> "alt", rs |-> rs]
Star(r) == [t |-> "star", r |-> r]
Plus(r) == [t |-> "plus", r |-> r]
Opt(r) == [t |-> "opt", r |-> r]
\* the literal characters of a word, in order
Word(w) == Cat([i \in DOMAIN w |-> Lit(w[i])])
\* r{n}
Times(r, n) == Cat([i \in 1..n |-> r])
\* \d, \s, \w and . of Python's re, on the characters above
ReDigit == Cls(Digit)
ReSpace == Cls(Space)
ReWord == Cls(Digit \cup Upper \cup Lower \cup {"_"})
ReAny == NotCls({"\n"})

RECURSIVE Ends(_, _, _, _)
RECURSIVE CatEnds(_, _, _, _, _)
RECURSIVE StarEnds(_, _, _, _)

Ends(re, s, P, ic) ==
    CASE re.t = "cls" ->
           {p + 1 : p \in {q \in P : /\ q <= Len(s)
                                     /\ IF ic THEN LowerChar(s[q]) \in {LowerChar(c) : c \in re.c}
                                              ELSE s[q] \in re.c}}
      [] re.t = "ncls" ->
           {p + 1 : p \in {q \in P : /\ q <= Len(s)
                                     /\ IF ic THEN LowerChar(s[q]) \notin {LowerChar(c) : c \in re.c}
                                              ELSE s[q] \notin re.c}}
      [] re.t = "cat" -> CatEnds(re.rs, 1, s, P, ic)
      [] re.t = "alt" -> UNION {Ends(re.rs[i], s, P, ic) : i \in DOMAIN re.rs}
      [] re.t = "opt" -> P \cup Ends(re.r, s, P, ic)
      [] re.t = "star" -> StarEnds(re.r, s, P, ic)
      [] re.t = "plus" -> StarEnds(re.r, s, Ends(re.r, s, P, ic), ic)

CatEnds(rs, i, s, P, ic) ==
    IF i > Len(rs) \/ P = {} THEN P
    ELSE CatEnds(rs, i + 1, s, Ends(rs[i], s, P, ic), ic)

StarEnds(r, s, P, ic) ==
    LET Q == P \cup Ends(r, s, P, ic)
    IN  IF Q = P THEN P ELSE StarEnds(r, s, Q, ic)

\* pattern.match(s) for a pattern written ^...$ (values are stripped before
\* they are matched, so the newline that $ tolerates never ends one)
FullMatch(re, s, ic) == (Len(s) + 1) \in Ends(re, s, {1}, ic)
\* pattern.match(s) for a pattern written ^... with no $
PrefixMatch(re, s, ic) == Ends(re, s, {1}, ic) # {}
\* re.search(pattern, s)
Search(re, s, ic) == Ends(re, s, 1..(Len(s) + 1), ic) # {}

\* ------------------------------------------------- spec-driven field sets
REQUIRED_FIELDS ==
    <<"enable_search", "enable_checkout", "id", "title", "description", "link",
      "product_category", "brand", "material", "weight", "image_link", "price",
      "availability", "inventory_quantity", "seller_name", "seller_url",
      "return_policy", "return_window">>

RECOMMENDED_FIELDS ==
    <<"gtin", "mpn", "condition", "dimensions", "length", "width", "height",
      "age_group", "additional_image_link", "video_link", "model_3d_link",
      "applicable_taxes_fees", "sale_price", "sale_price_effective_date",
      "unit_pricing_measure", "base_measure", "pricing_trend",
      "availability_date", "expiration_date", "pickup_method", "pickup_sla",
      "item_group_id", "item_group_title", "color", "size", "size_system",
      "gender", "offer_id", "shipping", "delivery_estimate",
      "seller_privacy_policy", "seller_tos", "popularity_score", "return_rate",
      "warning", "warning_url", "age_restriction", "product_review_count",
      "product_review_rating", "store_review_count", "store_review_rating",
      "q_and_a", "raw_review_data", "related_product_id", "relationship_type",
      "geo_price", "geo_availability">>

\* ------------------------------------------------------ enums and patterns
BOOL_ENUM == {<<"t", "r", "u", "e">>, <<"f", "a", "l", "s", "e">>}
AVAIL_ENUM == {<<"i", "n", "_", "s", "t", "o", "c", "k">>, <<"o", "u", "t", "_", "o", "f", "_", "s", "t", "o", "c", "k">>, <<"p", "r", "e", "o", "r", "d", "e", "r">>}
CONDITION_ENUM == {<<"n", "e", "w">>, <<"r", "e", "f", "u", "r", "b", "i", "s", "h", "e", "d">>, <<"u", "s", "e", "d">>}
AGE_GROUP_ENUM == {<<"n", "e", "w", "b", "o", "r", "n">>, <<"i", "n", "f", "a", "n", "t">>, <<"t", "o", "d", "d", "l", "e", "r">>, <<"k", "i", "d", "s">>, <<"a", "d", "u", "l", "t">>}
GENDER_ENUM == {<<"m", "a", "l", "e">>, <<"f", "e", "m", "a", "l", "e">>, <<"u", "n", "i", "s", "e", "x">>}
RELATIONSHIP_ENUM ==
    {<<"p", "a", "r", "t", "_", "o", "f", "_", "s", "e", "t">>,
     <<"r", "e", "q", "u", "i", "r", "e", "d", "_", "p", "a", "r", "t">>,
     <<"o", "f", "t", "e", "n", "_", "b", "o", "u", "g", "h", "t", "_", "w", "i", "t", "h">>,
     <<"s", "u", "b", "s", "t", "i", "t", "u", "t", "e">>,
     <<"d", "i", "f", "f", "e", "r", "e", "n", "t", "_", "b", "r", "a", "n", "d">>,
     <<"a", "c", "c", "e", "s", "s", "o", "r", "y">>}
PICKUP_ENUM == {<<"i", "n", "_", "s", "t", "o", "r", "e">>, <<"r", "e", "s", "e", "r", "v", "e">>, <<"n", "o", "t", "_", "s", "u", "p", "p", "o", "r", "t", "e", "d">>}

\* \d{4}-\d{2}-\d{2}
IsoDateShape ==
    Cat(<<Times(ReDigit, 4), Lit("-"), Times(ReDigit, 2), Lit("-"), Times(ReDigit, 2)>>)

\* ^\d+(\.\d{1,2})?\s[A-Z]{3}$
CURRENCY_PRICE_RE ==
    Cat(<<Plus(ReDigit), Opt(Cat(<<Lit("."), ReDigit, Opt(ReDigit)>>)), ReSpace,
          Times(Cls(Upper), 3)>>)
\* ^\d{4}-\d{2}-\d{2}$
ISO_DATE_RE == IsoDateShape
\* ^(\d{4}-\d{2}-\d{2})\s*/\s*(\d{4}-\d{2}-\d{2})$
DATE_RANGE_RE ==
    Cat(<<IsoDateShape, Star(ReSpace), Lit("/"), Star(ReSpace), IsoDateShape>>)
\* ^https?:// with re.IGNORECASE
URL_RE == Cat(<<Word(<<"h", "t", "t", "p">>), Opt(Lit("s")), Word(<<":", "/", "/">>)>>)
\* ^[A-Za-z0-9._\\-]+$ : inside the class, \\ is a backslash
ALNUM_RE == Plus(Cls(Upper \cup Lower \cup Digit \cup {".", "_", "\\", "-"}))
\* ^[A-Za-z]{2}$
COUNTRY_ALPHA2_RE == Times(Cls(Upper \cup Lower), 2)
\* r"^\\s*\\d+(\\.\\d+)?\\s*(lb|lbs|kg|g|oz)\\s*$" with re.IGNORECASE.  In a raw
\* string \\ is the pattern "a backslash", so what follows it is an ordinary
\* letter (s*, d+) or the wildcard (.), not a character class.
WEIGHT_RE ==
    Cat(<<Lit("\\"), Star(Lit("s")), Lit("\\"), Plus(Lit("d")),
          Opt(Cat(<<Lit("\\"), ReAny, Lit("\\"), Plus(Lit("d"))>>)),
          Lit("\\"), Star(Lit("s")),
          Alt(<<Word(<<"l", "b">>), Word(<<"l", "b", "s">>), Word(<<"k", "g">>), Word(<<"g">>), Word(<<"o", "z">>)>>),
          Lit("\\"), Star(Lit("s"))>>)
\* r"^\\s*\\d+(\\.\\d+)?\\s*(mm|cm|in|inch|inches)\\s*$" with re.IGNORECASE
DIMENSION_RE ==
    Cat(<<Lit("\\"), Star(Lit("s")), Lit("\\"), Plus(Lit("d")),
          Opt(Cat(<<Lit("\\"), ReAny, Lit("\\"), Plus(Lit("d"))>>)),
          Lit("\\"), Star(Lit("s")),
          Alt(<<Word(<<"m", "m">>), Word(<<"c", "m">>), Word(<<"i", "n">>), Word(<<"i", "n", "c", "h">>),
                Word(<<"i", "n", "c", "h", "e", "s">>)>>),
          Lit("\\"), Star(Lit("s"))>>)
\* r"<[^>]+>"
HTML_TAG_RE == Cat(<<Lit("<"), Plus(NotCls({">"})), Lit(">")>>)
\* r"^\\d+\\s+\\w+$"
PICKUP_SLA_RE ==
    Cat(<<Lit("\\"), Plus(Lit("d")), Lit("\\"), Plus(Lit("s")), Lit("\\"), Plus(Lit("w"))>>)

\* ---------------------------------------------------------------- numbers
\* float(s) and int(s) on decimal literals.  A float is the exact fraction
\* n / d; the literals of the records below have at most a few digits, where
\* comparing the fractions and comparing the doubles agree.  Python also reads
\* exponents, "inf", "nan" and digit-grouping underscores, which no value of
\* the records below uses.
FLOAT_SHAPE ==
    Cat(<<Opt(Cls({"+", "-"})),
          Alt(<<Cat(<<Plus(ReDigit), Opt(Cat(<<Lit("."), Star(ReDigit)>>))>>),
                Cat(<<Lit("."), Plus(ReDigit)>>)>>)>>)
INT_SHAPE == Cat(<<Opt(Cls({"+", "-"})), Plus(ReDigit)>>)

RECURSIVE Pow10(_)
Pow10(k) == IF k = 0 THEN 1 ELSE 10 * Pow10(k - 1)

\* the number spelled by the digits of s, other characters skipped
RECURSIVE DigitsValue(_, _)
DigitsValue(s, acc) ==
    IF s = <<>> THEN acc
    ELSE DigitsValue(Tail(s),
                     IF Head(s) \in Digit THEN 10 * acc + (IndexOf(DIGITS, Head(s)) - 1)
                     ELSE acc)

Sign(s) == IF s # <<>> /\ Head(s) = "-" THEN -1 ELSE 1

FracDigits(s) ==
    IF \E i \in DOMAIN s : s[i] = "." THEN Len(s) - IndexOf(s, ".") ELSE 0

\* float(s) raises ValueError unless CanFloat(s)
CanFloat(s) == FullMatch(FLOAT_SHAPE, Strip(s), FALSE)
Float(s) == [n |-> Sign(Strip(s)) * DigitsValue(s, 0), d |-> Pow10(FracDigits(Strip(s)))]
FloatGt(a, b) == a.n * b.d > b.n * a.d
\* int(x) for a float x: truncation towards zero
IntOfFloat(x) == IF x.n >= 0 THEN x.n \div x.d ELSE -((-x.n) \div x.d)

\* int(s) raises ValueError unless CanInt(s)
CanInt(s) == FullMatch(INT_SHAPE, Strip(s), FALSE)
Int_(s) == Sign(Strip(s)) * DigitsValue(s, 0)

\* -------------------------------------------------------------- utilities
\* parse_price: a pair <<float, currency>>, or None when the unpacking of
\* value.strip().split() or float() raises
parse_price(value) ==
    LET toks == Split(Strip(value))
    IN  IF Len(toks) = 2 /\ CanFloat(toks[1]) THEN <<Float(toks[1]), toks[2]>> ELSE None

IsLeap(y) == (y % 4 = 0 /\ y % 100 # 0) \/ y % 400 = 0
DaysInMonth(y, m) ==
    IF m = 2 THEN (IF IsLeap(y) THEN 29 ELSE 28)
    ELSE IF m \in {4, 6, 9, 11} THEN 30 ELSE 31
\* datetime.date(y, m, d) raises ValueError unless ValidDate(y, m, d)
ValidDate(y, m, d) ==
    /\ y >= 1 /\ y <= 9999
    /\ m >= 1 /\ m <= 12
    /\ d >= 1 /\ d <= DaysInMonth(y, m)
\* a > b on datetime.date, a date being <<year, month, day>>
DateGt(a, b) ==
    \/ a[1] > b[1]
    \/ a[1] = b[1] /\ a[2] > b[2]
    \/ a[1] = b[1] /\ a[2] = b[2] /\ a[3] > b[3]

\* is_future_date: now is what date.today() returns when it is called
is_future_date(yyyy_mm_dd, now) ==
    LET parts == SplitOn(yyyy_mm_dd, "-")
    IN  /\ Len(parts) = 3
        /\ \A i \in 1..3 : CanInt(parts[i])
        /\ ValidDate(Int_(parts[1]), Int_(parts[2]), Int_(parts[3]))
        /\ DateGt(<<Int_(parts[1]), Int_(parts[2]), Int_(parts[3])>>, now)

\* ---------------------------------------------------------- core validator
\* dict.get(k) and dict.get(k, "") on the normalised record r
Get(r, k) == IF k \in DOMAIN r THEN r[k] ELSE None
GetD(r, k) == IF k \in DOMAIN r THEN r[k] ELSE <<>>
\* the truth value of an Optional[str]
Truthy(v) == v # None /\ v # <<>>

\* An Issue: message and remediation are fixed by rule_id and field and are
\* left out.  sample_value is str(sample), or None.
Issue(row_index, item_id, field, rule_id, severity, sample) ==
    [row_index |-> row_index, item_id |-> item_id, field |-> field,
     rule_id |-> rule_id, severity |-> severity, sample_value |-> sample]

\* _push_issue with the severity test on the wrong severity
PushIssueRowOnWarning(acc, row_index, item_id, field, rule_id, severity, sample) ==
    [issues |-> Append(acc.issues,
                       Issue(row_index, IF item_id = <<>> THEN None ELSE item_id,
                             field, rule_id, severity, sample)),
     error_rows |-> IF severity = "warning" THEN acc.error_rows \cup {row_index}
                    ELSE acc.error_rows]

\* acc is the pair of locals <issues, error_rows> that the call updates
_push_issue(acc, row_index, item_id, field, rule_id, severity, sample) ==
    [issues |-> Append(acc.issues,
                       Issue(row_index, IF item_id = <<>> THEN None ELSE item_id,
                             field, rule_id, severity, sample)),
     error_rows |-> IF severity = "error" THEN acc.error_rows \cup {row_index}
                    ELSE acc.error_rows]

\* if cond: _push_issue(...)
PushIf(cond, acc, idx, rid, field, rule_id, severity, sample) ==
    IF cond THEN _push_issue(acc, idx, rid, field, rule_id, severity, sample) ELSE acc

\* r = {k: ("" if raw.get(k) is None else str(raw.get(k)).strip()) for k in header}
Normalise(raw, hdr) ==
    [k \in hdr |-> IF k \in DOMAIN raw /\ raw[k] # None THEN Strip(raw[k]) ELSE <<>>]

\* enable_search / enable_checkout
CheckFlags(acc, r, idx, rid) ==
    LET es == ToLower(GetD(r, "enable_search"))
        ec == ToLower(GetD(r, "enable_checkout"))
        a1 == PushIf(es \notin BOOL_ENUM, acc, idx, rid, "enable_search", "OF-100", "error", es)
        a2 == PushIf(ec \notin BOOL_ENUM, a1, idx, rid, "enable_checkout", "OF-101", "error", ec)
    IN  PushIf(ec = <<"t", "r", "u", "e">> /\ es # <<"t", "r", "u", "e">>, a2, idx, rid,
               "enable_checkout", "OF-102", "error", ec)

\* id
CheckId(acc, r, idx, rid, seen) ==
    IF ~Truthy(Get(r, "id"))
    THEN _push_issue(acc, idx, rid, "id", "OF-110", "error", Get(r, "id"))
    ELSE LET a1 == PushIf(Len(r["id"]) > 100, acc, idx, rid, "id", "OF-111", "error",
                          Prefix(r["id"], 120))
             a2 == PushIf(~FullMatch(ALNUM_RE, r["id"], FALSE), a1, idx, rid,
                          "id", "OF-112", "warning", r["id"])
         IN  PushIf(r["id"] \in seen, a2, idx, rid, "id", "OF-113", "error", r["id"])

\* seen_ids.add(r["id"]), in the else branch of the id check
SeenAfter(seen, r) == IF Truthy(Get(r, "id")) THEN seen \cup {r["id"]} ELSE seen

\* title
CheckTitle(acc, r, idx, rid) ==
    LET title == GetD(r, "title")
    IN  IF title = <<>>
        THEN _push_issue(acc, idx, rid, "title", "OF-120", "error", title)
        ELSE LET a1 == PushIf(Len(title) > 150, acc, idx, rid, "title", "OF-121",
                              "warning", Prefix(title, 180))
             IN  PushIf(IsUpper(title), a1, idx, rid, "title", "OF-122", "warning", title)

\* description
CheckDescription(acc, r, idx, rid) ==
    LET desc == GetD(r, "description")
    IN  IF desc = <<>>
        THEN _push_issue(acc, idx, rid, "description", "OF-130", "error", desc)
        ELSE LET a1 == PushIf(Len(desc) > 5000, acc, idx, rid, "description", "OF-131",
                              "warning", Prefix(desc, 80))
             IN  PushIf(Search(HTML_TAG_RE, desc, FALSE), a1, idx, rid,
                        "description", "OF-132", "warning", Prefix(desc, 80))

\* link
CheckLink(acc, r, idx, rid) ==
    LET link == GetD(r, "link")
    IN  IF link = <<>>
        THEN _push_issue(acc, idx, rid, "link", "OF-140", "error", link)
        ELSE PushIf(~PrefixMatch(URL_RE, link, TRUE), acc, idx, rid,
                    "link", "OF-141", "error", link)

\* product_category, brand, material
CheckCategory(acc, r, idx, rid) ==
    LET pcat == GetD(r, "product_category")
        brand == GetD(r, "brand")
        material == GetD(r, "material")
        a1 == IF pcat = <<>>
              THEN _push_issue(acc, idx, rid, "product_category", "OF-150", "error", pcat)
              ELSE PushIf(\A i \in DOMAIN pcat : pcat[i] # ">", acc, idx, rid,
                          "product_category", "OF-151", "warning", pcat)
        a2 == IF brand = <<>>
              THEN _push_issue(a1, idx, rid, "brand", "OF-160", "error", brand)
              ELSE PushIf(Len(brand) > 70, a1, idx, rid, "brand", "OF-161", "warning",
                          Prefix(brand, 90))
    IN  IF material = <<>>
        THEN _push_issue(a2, idx, rid, "material", "OF-170", "error", material)
        ELSE PushIf(Len(material) > 100, a2, idx, rid, "material", "OF-171", "warning",
                    Prefix(material, 120))

\* weight
CheckWeight(acc, r, idx, rid) ==
    LET weight == GetD(r, "weight")
    IN  IF weight = <<>>
        THEN _push_issue(acc, idx, rid, "weight", "OF-180", "error", weight)
        ELSE PushIf(~FullMatch(WEIGHT_RE, weight, TRUE), acc, idx, rid,
                    "weight", "OF-181", "error", weight)

\* Media: image_link
CheckImageLink(acc, r, idx, rid) ==
    LET img == GetD(r, "image_link")
    IN  IF img = <<>>
        THEN _push_issue(acc, idx, rid, "image_link", "OF-190", "error", img)
        ELSE PushIf(~PrefixMatch(URL_RE, img, TRUE), acc, idx, rid,
                    "image_link", "OF-191", "error", img)

\* Price
CheckPrice(acc, r, idx, rid) ==
    LET price == GetD(r, "price")
    IN  IF price = <<>>
        THEN _push_issue(acc, idx, rid, "price", "OF-200", "error", price)
        ELSE PushIf(~FullMatch(CURRENCY_PRICE_RE, price, FALSE), acc, idx, rid,
                    "price", "OF-201", "error", price)

\* Availability & Inventory, and the preorder dependency
CheckAvailability(acc, r, idx, rid, now) ==
    LET avail == ToLower(GetD(r, "availability"))
        invq == GetD(r, "inventory_quantity")
        ad == GetD(r, "availability_date")
        a1 == IF avail = <<>>
              THEN _push_issue(acc, idx, rid, "availability", "OF-210", "error", avail)
              ELSE PushIf(avail \notin AVAIL_ENUM, acc, idx, rid,
                          "availability", "OF-211", "error", avail)
        a2 == IF invq = <<>>
              THEN _push_issue(a1, idx, rid, "inventory_quantity", "OF-212", "error", invq)
              ELSE PushIf(~(CanFloat(invq) /\ IntOfFloat(Float(invq)) >= 0), a1, idx, rid,
                          "inventory_quantity", "OF-213", "error", invq)
    IN  PushIf(/\ avail = <<"p", "r", "e", "o", "r", "d", "e", "r">>
               /\ \/ ad = <<>>
                  \/ ~FullMatch(ISO_DATE_RE, ad, FALSE)
                  \/ ~is_future_date(ad, now),
               a2, idx, rid, "availability_date", "OF-214", "error", ad)

\* Variants, condition, age_group
CheckVariants(acc, r, idx, rid) ==
    LET variant_hint ==
            \E k \in {"color", "size", "size_system", "gender"} : Truthy(Get(r, k))
        a1 == PushIf(variant_hint /\ ~Truthy(Get(r, "item_group_id")), acc, idx, rid,
                     "item_group_id", "OF-230", "error", Get(r, "item_group_id"))
        a2 == PushIf(Truthy(Get(r, "gender"))
                       /\ ToLower(GetD(r, "gender")) \notin GENDER_ENUM,
                     a1, idx, rid, "gender", "OF-231", "warning", Get(r, "gender"))
        a3 == PushIf(Truthy(Get(r, "size_system"))
                       /\ ~FullMatch(COUNTRY_ALPHA2_RE, GetD(r, "size_system"), FALSE),
                     a2, idx, rid, "size_system", "OF-232", "warning", Get(r, "size_system"))
        a4 == PushIf(Truthy(Get(r, "condition"))
                       /\ ToLower(GetD(r, "condition")) \notin CONDITION_ENUM,
                     a3, idx, rid, "condition", "OF-233", "warning", Get(r, "condition"))
    IN  PushIf(Truthy(Get(r, "age_group"))
                 /\ ToLower(GetD(r, "age_group")) \notin AGE_GROUP_ENUM,
               a4, idx, rid, "age_group", "OF-234", "warning", Get(r, "age_group"))

\* Dimensions rule
CheckDimensions(acc, r, idx, rid) ==
    LET dims == <<GetD(r, "length"), GetD(r, "width"), GetD(r, "height")>>
        names == <<"length", "width", "height">>
        provided_dims == SelectSeq(dims, LAMBDA d : d # <<>>)
        a0 == PushIf(provided_dims # <<>> /\ Len(provided_dims) # 3, acc, idx, rid,
                     "length/width/height", "OF-240", "warning",
                     Join(<<",", " ">>, provided_dims))
        Dim(a, i) == PushIf(dims[i] # <<>> /\ ~FullMatch(DIMENSION_RE, dims[i], TRUE),
                            a, idx, rid, names[i], "OF-241", "warning", dims[i])
    IN  Dim(Dim(Dim(a0, 1), 2), 3)

\* Media optional checks
CheckMediaOptional(acc, r, idx, rid) ==
    LET a1 == PushIf(Truthy(Get(r, "video_link"))
                       /\ ~PrefixMatch(URL_RE, GetD(r, "video_link"), TRUE),
                     acc, idx, rid, "video_link", "OF-250", "warning", Get(r, "video_link"))
    IN  PushIf(Truthy(Get(r, "model_3d_link"))
                 /\ ~PrefixMatch(URL_RE, GetD(r, "model_3d_link"), TRUE),
               a1, idx, rid, "model_3d_link", "OF-251", "warning", Get(r, "model_3d_link"))

\* Price dependencies
CheckSalePrice(acc, r, idx, rid) ==
    IF ~Truthy(Get(r, "sale_price")) THEN acc
    ELSE LET price == GetD(r, "price")
             sp == r["sale_price"]
             p_parsed == parse_price(price)
             sp_parsed == parse_price(sp)
             spd == GetD(r, "sale_price_effective_date")
             a1 == IF ~FullMatch(CURRENCY_PRICE_RE, sp, FALSE)
                   THEN _push_issue(acc, idx, rid, "sale_price", "OF-260", "error", sp)
                   ELSE PushIf(/\ p_parsed # None
                               /\ sp_parsed # None
                               /\ FloatGt(sp_parsed[1], p_parsed[1]),
                               acc, idx, rid, "sale_price", "OF-261", "error", sp)
         IN  IF spd = <<>> \/ ~FullMatch(DATE_RANGE_RE, spd, FALSE)
             THEN _push_issue(a1, idx, rid, "sale_price_effective_date", "OF-262",
                              "error", spd)
             ELSE \* the two groups of DATE_RANGE_RE: the first and the last ten characters
                  LET start == SubSeq(spd, 1, 10)
                      end == SubSeq(spd, Len(spd) - 9, Len(spd))
                  IN  PushIf(StrGeq(start, end), a1, idx, rid,
                             "sale_price_effective_date", "OF-263", "error", spd)

\* Unit pricing: both required together
CheckUnitPricing(acc, r, idx, rid) ==
    LET upm == GetD(r, "unit_pricing_measure")
        bm == GetD(r, "base_measure")
    IN  PushIf((upm # <<>> \/ bm # <<>>) /\ (upm = <<>> \/ bm = <<>>), acc, idx, rid,
               "unit_pricing_measure/base_measure", "OF-270", "error",
               upm \o <<" ", "|", " ">> \o bm)

\* Availability extras: expiration_date, pickup_method, pickup_sla
CheckAvailabilityExtras(acc, r, idx, rid, now) ==
    LET a1 == PushIf(/\ Truthy(Get(r, "expiration_date"))
                     /\ \/ ~FullMatch(ISO_DATE_RE, GetD(r, "expiration_date"), FALSE)
                        \/ ~is_future_date(GetD(r, "expiration_date"), now),
                     acc, idx, rid, "expiration_date", "OF-280", "warning",
                     Get(r, "expiration_date"))
        a2 == PushIf(Truthy(Get(r, "pickup_method"))
                       /\ GetD(r, "pickup_method") \notin PICKUP_ENUM,
                     a1, idx, rid, "pickup_method", "OF-281", "warning",
                     Get(r, "pickup_method"))
    IN  PushIf(Truthy(Get(r, "pickup_sla"))
                 /\ ~FullMatch(PICKUP_SLA_RE, GetD(r, "pickup_sla"), FALSE),
               a2, idx, rid, "pickup_sla", "OF-282", "warning", Get(r, "pickup_sla"))

\* Merchant info, with the checkout dependency
CheckMerchant(acc, r, idx, rid) ==
    LET ec == ToLower(GetD(r, "enable_checkout"))
        a1 == IF ~Truthy(Get(r, "seller_name"))
              THEN _push_issue(acc, idx, rid, "seller_name", "OF-290", "error",
                               Get(r, "seller_name"))
              ELSE PushIf(Len(r["seller_name"]) > 70, acc, idx, rid, "seller_name",
                          "OF-291", "warning", Prefix(r["seller_name"], 80))
        a2 == IF ~Truthy(Get(r, "seller_url"))
              THEN _push_issue(a1, idx, rid, "seller_url", "OF-292", "error",
                               Get(r, "seller_url"))
              ELSE PushIf(~PrefixMatch(URL_RE, r["seller_url"], TRUE), a1, idx, rid,
                          "seller_url", "OF-293", "error", r["seller_url"])
        a3 == PushIf(/\ ec = <<"t", "r", "u", "e">>
                     /\ \/ ~Truthy(Get(r, "seller_privacy_policy"))
                        \/ ~PrefixMatch(URL_RE, GetD(r, "seller_privacy_policy"), TRUE),
                     a2, idx, rid, "seller_privacy_policy", "OF-294", "error",
                     Get(r, "seller_privacy_policy"))
    IN  PushIf(/\ ec = <<"t", "r", "u", "e">>
               /\ \/ ~Truthy(Get(r, "seller_tos"))
                  \/ ~PrefixMatch(URL_RE, GetD(r, "seller_tos"), TRUE),
               a3, idx, rid, "seller_tos", "OF-295", "error", Get(r, "seller_tos"))

\* Returns
CheckReturns(acc, r, idx, rid) ==
    LET a1 == PushIf(\/ ~Truthy(Get(r, "return_policy"))
                     \/ ~PrefixMatch(URL_RE, GetD(r, "return_policy"), TRUE),
                     acc, idx, rid, "return_policy", "OF-296", "error",
                     Get(r, "return_policy"))
    IN  IF ~Truthy(Get(r, "return_window"))
        THEN _push_issue(a1, idx, rid, "return_window", "OF-297", "error",
                         Get(r, "return_window"))
        ELSE PushIf(~(CanInt(r["return_window"]) /\ Int_(r["return_window"]) > 0),
                    a1, idx, rid, "return_window", "OF-298", "error", r["return_window"])

\* Relationship type
CheckRelationship(acc, r, idx, rid) ==
    PushIf(Truthy(Get(r, "relationship_type"))
             /\ GetD(r, "relationship_type") \notin RELATIONSHIP_ENUM,
           acc, idx, rid, "relationship_type", "OF-299", "warning",
           Get(r, "relationship_type"))

\* Recommended-but-empty warnings: for opt in RECOMMENDED_FIELDS, one push for
\* each opt that is a key of r with an empty value (the others push nothing)
RECURSIVE PushEmpty(_, _, _, _, _)
PushEmpty(acc, r, idx, rid, opts) ==
    IF opts = <<>> THEN acc
    ELSE PushEmpty(_push_issue(acc, idx, rid, Head(opts), "OF-REC", "warning",
                               Get(r, Head(opts))),
                   r, idx, rid, Tail(opts))

CheckRecommended(acc, r, idx, rid) ==
    PushEmpty(acc, r, idx, rid,
              SelectSeq(RECOMMENDED_FIELDS, LAMBDA opt : opt \in DOMAIN r /\ r[opt] = <<>>))

\* the locals <issues, error_rows> with nothing pushed, and acc followed by
\* the pushes of more
Fresh == [issues |-> <<>>, error_rows |-> {}]
\* Then with the new pushes put in front
ThenInFront(acc, more) ==
    [issues |-> more.issues \o acc.issues,
     error_rows |-> acc.error_rows \cup more.error_rows]

Then(acc, more) ==
    [issues |-> acc.issues \o more.issues,
     error_rows |-> acc.error_rows \cup more.error_rows]

RECURSIVE ThenAll(_, _, _)
ThenAll(acc, pushed, i) ==
    IF i > Len(pushed) THEN acc ELSE ThenAll(Then(acc, pushed[i]), pushed, i + 1)

\* the body of "for idx, raw in enumerate(records)" after total += 1: what
\* each group of rules pushes, in the order of the code
RecordRules(acc, raw, hdr, idx, seen, now) ==
    LET r == Normalise(raw, hdr)
        rid == GetD(r, "id")
    IN  ThenAll(acc,
                <<CheckFlags(Fresh, r, idx, rid),
                  CheckId(Fresh, r, idx, rid, seen),
                  CheckTitle(Fresh, r, idx, rid),
                  CheckDescription(Fresh, r, idx, rid),
                  CheckLink(Fresh, r, idx, rid),
                  CheckCategory(Fresh, r, idx, rid),
                  CheckWeight(Fresh, r, idx, rid),
                  CheckImageLink(Fresh, r, idx, rid),
                  CheckPrice(Fresh, r, idx, rid),
                  CheckAvailability(Fresh, r, idx, rid, now),
                  CheckVariants(Fresh, r, idx, rid),
                  CheckDimensions(Fresh, r, idx, rid),
                  CheckMediaOptional(Fresh, r, idx, rid),
                  CheckSalePrice(Fresh, r, idx, rid),
                  CheckUnitPricing(Fresh, r, idx, rid),
                  CheckAvailabilityExtras(Fresh, r, idx, rid, now),
                  CheckMerchant(Fresh, r, idx, rid),
                  CheckReturns(Fresh, r, idx, rid),
                  CheckRelationship(Fresh, r, idx, rid),
                  CheckRecommended(Fresh, r, idx, rid)>>,
                1)

\* Header-level required presence: one OF-REQ-MISSING issue for each required
\* field that is no key of the first record, in the order of REQUIRED_FIELDS
HeaderOf(recs) == IF recs # <<>> THEN DOMAIN recs[1] ELSE {}

\* HeaderIssues with the issues put on the first record
RECURSIVE HeaderIssuesOnFirstRow(_, _)
HeaderIssuesOnFirstRow(hdr, i) ==
    IF i > Len(REQUIRED_FIELDS) THEN <<>>
    ELSE (IF REQUIRED_FIELDS[i] \notin hdr
          THEN <<Issue(0, None, REQUIRED_FIELDS[i], "OF-REQ-MISSING", "error", None)>>
          ELSE <<>>) \o HeaderIssuesOnFirstRow(hdr, i + 1)

RECURSIVE HeaderIssues(_, _)
HeaderIssues(hdr, i) ==
    IF i > Len(REQUIRED_FIELDS) THEN <<>>
    ELSE (IF REQUIRED_FIELDS[i] \notin hdr
          THEN <<Issue(NoRow, None, REQUIRED_FIELDS[i], "OF-REQ-MISSING", "error", None)>>
          ELSE <<>>) \o HeaderIssues(hdr, i + 1)

\* sum(1 for it in issues if it.severity == sev)
CountSeverity(iss, sev) == Cardinality({i \in DOMAIN iss : iss[i].severity = sev})

\* pass_rate is a float with four decimals: it is kept as ten-thousandths
RateScale == 10000
\* round(n / t, 4) in ten-thousandths, ties to even.  Python rounds the double
\* nearest to n / t; up to t = 159 that is the same number.
Round4(n, t) ==
    LET q == (n * RateScale) \div t
        rem == (n * RateScale) % t
    IN  IF 2 * rem > t \/ (2 * rem = t /\ q % 2 = 1) THEN q + 1 ELSE q

\* the pass rate with the share of the erroring rows in place of the passing ones
PassRateOfErrorRows(tot, rows) == IF tot = 0 THEN 0 ELSE Round4(Cardinality(rows), tot)

\* pass_rate = 0.0 if total == 0 else round((total - len(error_rows)) / total, 4)
PassRate(tot, rows) == IF tot = 0 THEN 0 ELSE Round4(tot - Cardinality(rows), tot)

Summary(items_total, items_with_errors, items_with_warnings, pass_rate) ==
    [items_total |-> items_total, items_with_errors |-> items_with_errors,
     items_with_warnings |-> items_with_warnings, pass_rate |-> pass_rate]

ValidateResponse(summary, iss) == [summary |-> summary, issues |-> iss]

\* ------------------------------------------------------------ the records
\* The raw records a run is given: dicts from key to a str or None.
With(rec, k, v) == [x \in DOMAIN rec \cup {k} |-> IF x = k THEN v ELSE rec[x]]
Without(rec, k) == [x \in DOMAIN rec \ {k} |-> rec[x]]

\* every required field present and accepted by the code (the weight is one
\* of the strings WEIGHT_RE accepts as it is written), no optional field
Base ==
    [enable_search |-> <<"f", "a", "l", "s", "e">>,
     enable_checkout |-> <<"f", "a", "l", "s", "e">>,
     id |-> <<"A">>,
     title |-> <<"M", "u", "g">>,
     description |-> <<"A", " ", "m", "u", "g">>,
     link |-> <<"h", "t", "t", "p", "s", ":", "/", "/", "x", ".", "y", "/", "a">>,
     product_category |-> <<"H", "o", "m", "e", " ", ">", " ", "M", "u", "g", "s">>,
     brand |-> <<"A", "c", "m", "e">>,
     material |-> <<"c", "l", "a", "y">>,
     weight |-> <<"\\", "\\", "d", "\\", "l", "b", "\\">>,
     image_link |-> <<"h", "t", "t", "p", ":", "/", "/", "x", ".", "y", "/", "a", ".", "p", "n", "g">>,
     price |-> <<"1", "0", "0", ".", "0", "0", " ", "U", "S", "D">>,
     availability |-> <<"i", "n", "_", "s", "t", "o", "c", "k">>,
     inventory_quantity |-> <<"5">>,
     seller_name |-> <<"A", "c", "m", "e">>,
     seller_url |-> <<"h", "t", "t", "p", "s", ":", "/", "/", "x", ".", "y">>,
     return_policy |-> <<"h", "t", "t", "p", "s", ":", "/", "/", "x", ".", "y", "/", "r">>,
     return_window |-> <<"3", "0">>]

\* the same with a weight of the documented form <number><space><unit>
WellFormed == With(Base, "weight", <<"1", ".", "5", " ", "l", "b">>)
\* checkout without search; checkout with search and no seller_tos
CheckoutNoSearch == With(With(Base, "enable_checkout", <<"t", "r", "u", "e">>), "id", <<"B">>)
CheckoutNoTos ==
    With(With(With(Base, "enable_checkout", <<"t", "r", "u", "e">>), "enable_search", <<"t", "r", "u", "e">>),
         "seller_privacy_policy", <<"h", "t", "t", "p", "s", ":", "/", "/", "x", ".", "y", "/", "p">>)
\* sale prices above and below the price, with no effective date; their ids
\* differ from "A" in surrounding white space only, and in case
SaleAbove == With(With(Base, "sale_price", <<"1", "2", "0", ".", "0", "0", " ", "U", "S", "D">>), "id", <<" ", "A">>)
SaleBelow == With(With(Base, "sale_price", <<"8", "0", ".", "0", "0", " ", "U", "S", "D">>), "id", <<"a">>)
\* a sale price with a reversed date range, one half of the unit pricing, an
\* empty id and a title that is None
SaleDated ==
    With(With(With(With(With(Base, "sale_price", <<"1", "0", "0", ".", "0", "0", " ", "U", "S", "D">>),
                        "sale_price_effective_date", <<"2", "0", "2", "6", "-", "0", "2", "-", "0", "1", " ", "/", " ", "2", "0", "2", "6", "-", "0", "1", "-", "0", "1">>),
                   "base_measure", <<"1", " ", "k", "g">>), "id", <<>>), "title", None)
\* a required key that is absent
NoWeightKey == Without(Base, "weight")
\* a preorder that becomes available on the day after the first day
Preorder ==
    With(With(With(With(Base, "availability", <<"P", "r", "e", "o", "r", "d", "e", "r">>),
                   "availability_date", <<"2", "0", "2", "6", "-", "1", "1", "-", "0", "4">>),
              "expiration_date", <<"2", "0", "2", "6", "-", "1", "1", "-", "0", "4">>), "id", <<"P">>)
\* flags in another casing, variant attributes in a group, and recommended
\* keys that are empty: warnings only
Variant ==
    [k \in DOMAIN Base \cup {"color", "gender", "gtin", "size_system", "size",
                             "availability_date", "seller_tos", "item_group_id"} |->
        CASE k = "enable_search" -> <<"T", "R", "U", "E">>
          [] k = "enable_checkout" -> <<"F", "a", "l", "s", "e">>
          [] k = "id" -> <<"V">>
          [] k = "color" -> <<"r", "e", "d">>
          [] k = "item_group_id" -> <<"G">>
          [] k = "gender" -> <<>>
          [] k = "gtin" -> <<>>
          [] k = "size_system" -> <<"E", "U", "R">>
          [] k = "size" -> None
          [] k = "availability_date" -> <<>>
          [] k = "seller_tos" -> <<" ">>
          [] OTHER -> Base[k]]
\* several required values empty or malformed, and soft conventions broken
Messy ==
    [enable_search |-> <<"y", "e", "s">>,
     enable_checkout |-> <<>>,
     id |-> <<"a", " ", "b">>,
     title |-> <<"M", "U", "G">>,
     description |-> <<"<", "b", ">", "m", "u", "g", "<", "/", "b", ">">>,
     link |-> <<"f", "t", "p", ":", "/", "/", "x">>,
     product_category |-> <<"M", "u", "g", "s">>,
     brand |-> <<>>,
     material |-> <<>>,
     weight |-> <<>>,
     image_link |-> <<>>,
     price |-> <<"1", "2", " ", "u", "s", "d">>,
     availability |-> <<"s", "o", "o", "n">>,
     inventory_quantity |-> <<"-", "2", ".", "9">>,
     seller_name |-> <<>>,
     seller_url |-> <<"x", ".", "y">>,
     return_policy |-> <<>>,
     return_window |-> <<"0">>,
     length |-> <<"1", "0", " ", "c", "m">>,
     size |-> <<"L">>,
     video_link |-> <<"x">>,
     sale_price |-> <<"2", "0", ".", "0", "0", " ", "U", "S", "D">>,
     pickup_method |-> <<"I", "n", "_", "s", "t", "o", "r", "e">>,
     pickup_sla |-> <<"1", " ", "d", "a", "y">>,
     condition |-> <<"o", "l", "d">>,
     age_group |-> <<"t", "e", "e", "n">>,
     relationship_type |-> <<"o", "t", "h", "e", "r">>]

RecordSet ==
    {Base, WellFormed, CheckoutNoSearch, CheckoutNoTos, SaleAbove, SaleBelow,
     SaleDated, NoWeightKey, Preorder, Variant, Messy}

\* the sequences of at most n records
SeqUpTo(S, n) == UNION {[1..k -> S] : k \in 0..n}

\* date.today() on the first day of the run, and the last day the clock reaches
FirstDay == <<2026, 11, 3>>
LastDay == <<2026, 11, 4>>
NextDay(t) ==
    IF t[3] < DaysInMonth(t[1], t[2]) THEN <<t[1], t[2], t[3] + 1>>
    ELSE IF t[2] < 12 THEN <<t[1], t[2] + 1, 1>>
    ELSE <<t[1] + 1, 1, 1>>

\* ------------------------------------------------------------------ state
VARIABLES
    records,     \* the argument of validate_records
    today,       \* what date.today() returns now
    pc,          \* "start": at the header check; "loop": in the for loop; "done": returned
    header,      \* list(records[0].keys()), as a set
    idx,         \* the index of the next record of the loop
    total,
    issues,
    error_rows,
    seen_ids,
    response,    \* the ValidateResponse returned, once pc = "done"
    parked       \* the frame of the other call of validate_records, when there is one

vars == <<records, today, pc, header, idx, total, issues, error_rows, seen_ids, response,
          parked>>

\* the frame of no call
NoCall ==
    [records |-> <<>>, pc |-> "none", header |-> {}, idx |-> 0, total |-> 0,
     issues |-> <<>>, error_rows |-> {}, seen_ids |-> {},
     response |-> ValidateResponse(Summary(0, 0, 0, 0), <<>>)]

Init ==
    /\ records \in SeqUpTo(RecordSet, MaxRecords)
    /\ today = FirstDay
    /\ pc = "start"
    /\ header = {}
    /\ idx = 0
    /\ total = 0
    /\ issues = <<>>
    /\ error_rows = {}
    /\ seen_ids = {}
    /\ response = ValidateResponse(Summary(0, 0, 0, 0), <<>>)
    /\ parked = NoCall

\* the header-level check, and the early return when a required field is missing
HeaderCheck ==
    /\ pc = "start"
    /\ LET hdr == HeaderOf(records)
           iss == issues \o HeaderIssues(hdr, 1)
       IN  /\ header' = hdr
           /\ issues' = iss
           /\ IF \E i \in DOMAIN iss : iss[i].rule_id = "OF-REQ-MISSING"
              THEN /\ response' = ValidateResponse(
                                      Summary(0, CountSeverity(iss, "error"),
                                              CountSeverity(iss, "warning"), 0),
                                      iss)
                   /\ pc' = "done"
              ELSE /\ pc' = "loop"
                   /\ UNCHANGED response
    /\ UNCHANGED <<records, today, idx, total, error_rows, seen_ids, parked>>

\* one iteration of the loop: every rule on records[idx]
LoopBody ==
    /\ pc = "loop"
    /\ idx < Len(records)
    /\ LET raw == records[idx + 1]
           acc == RecordRules([issues |-> issues, error_rows |-> error_rows],
                              raw, header, idx, seen_ids, today)
       IN  /\ issues' = acc.issues
           /\ error_rows' = acc.error_rows
           /\ seen_ids' = SeenAfter(seen_ids, Normalise(raw, header))
    /\ total' = total + 1
    /\ idx' = idx + 1
    /\ UNCHANGED <<records, today, pc, header, response, parked>>

\* after the loop: the counts, the pass rate and the return
Summarise ==
    /\ pc = "loop"
    /\ idx = Len(records)
    /\ response' = ValidateResponse(
                       Summary(total, CountSeverity(issues, "error"),
                               CountSeverity(issues, "warning"),
                               PassRate(total, error_rows)),
                       issues)
    /\ pc' = "done"
    /\ UNCHANGED <<records, today, header, idx, total, issues, error_rows, seen_ids, parked>>

\* midnight passes while the run is under way
Tick ==
    /\ pc # "done"
    /\ DateGt(LastDay, today)
    /\ today' = NextDay(today)
    /\ UNCHANGED <<records, pc, header, idx, total, issues, error_rows, seen_ids, response,
                   parked>>

Next == HeaderCheck \/ LoopBody \/ Summarise \/ Tick

Spec == Init /\ [][Next]_vars

\* ---------------------------------------------------------- several calls
\* Every call of validate_records has its own locals.  The variables above
\* are the frame of the call that is running, parked is the frame of another
\* call (a request served meanwhile, or the one served before or after).

\* the feeds of the calls: a clean record, one whose result depends on the
\* day, and one with errors
RunRecordSet == {Base, Preorder, Messy}

\* a call whose seen_ids is not a local but a set the calls share
NewCallKeepsSeen(recs) ==
    [records |-> recs, pc |-> "start", header |-> {}, idx |-> 0, total |-> 0,
     issues |-> <<>>, error_rows |-> {}, seen_ids |-> seen_ids,
     response |-> ValidateResponse(Summary(0, 0, 0, 0), <<>>)]

\* the frame at the entry of validate_records(recs): issues = [],
\* error_rows = set(), seen_ids = set(), total = 0
NewCall(recs) ==
    [records |-> recs, pc |-> "start", header |-> {}, idx |-> 0, total |-> 0,
     issues |-> <<>>, error_rows |-> {}, seen_ids |-> {},
     response |-> ValidateResponse(Summary(0, 0, 0, 0), <<>>)]

\* the frame of the running call
Frame ==
    [records |-> records, pc |-> pc, header |-> header, idx |-> idx, total |-> total,
     issues |-> issues, error_rows |-> error_rows, seen_ids |-> seen_ids,
     response |-> response]

\* the call of frame f runs next
Resume(f) ==
    /\ records' = f.records
    /\ pc' = f.pc
    /\ header' = f.header
    /\ idx' = f.idx
    /\ total' = f.total
    /\ issues' = f.issues
    /\ error_rows' = f.error_rows
    /\ seen_ids' = f.seen_ids
    /\ response' = f.response

InitRuns ==
    /\ records \in SeqUpTo(RunRecordSet, MaxRunRecords)
    /\ today = FirstDay
    /\ pc = "start"
    /\ header = {}
    /\ idx = 0
    /\ total = 0
    /\ issues = <<>>
    /\ error_rows = {}
    /\ seen_ids = {}
    /\ response = ValidateResponse(Summary(0, 0, 0, 0), <<>>)
    /\ parked \in {NewCall(recs) : recs \in SeqUpTo(RunRecordSet, MaxRunRecords)}

\* the running call has returned and validate_records is called again
Call ==
    /\ pc = "done"
    /\ \E recs \in SeqUpTo(RunRecordSet, MaxRunRecords) : Resume(NewCall(recs))
    /\ UNCHANGED <<today, parked>>

\* the other call runs on
Switch ==
    /\ Resume(parked)
    /\ parked' = Frame
    /\ UNCHANGED today

NextRuns == HeaderCheck \/ LoopBody \/ Summarise \/ Tick \/ Call \/ Switch

SpecRuns == InitRuns /\ [][NextRuns]_vars

\* ------------------------------------------------------------ the claims
Done == pc = "done"
Returned == response.issues
\* the indices of the records that have an error-severity issue in the issue list iss
ErrorRecords(iss) ==
    {iss[k].row_index : k \in {j \in DOMAIN iss : /\ iss[j].severity = "error"
                                                   /\ iss[j].row_index # NoRow}}
\* the issues of iss for row i, in order
RowIssues(iss, i) == SelectSeq(iss, LAMBDA it : it.row_index = i)
\* the value of key k in a raw record as the rules read it: stripped, and
\* empty when the key is absent or its value is None
Value(raw, k) == IF k \in DOMAIN raw /\ raw[k] # None THEN Strip(raw[k]) ELSE <<>>

\* C1 as stated: the returned pass_rate lies in [0, 1], and it is 1.0 if and
\* only if no record produced an error-severity issue.
C1_PassRateOneIffNoErrors ==
    Done => /\ response.summary.pass_rate >= 0
            /\ response.summary.pass_rate <= RateScale
            /\ (response.summary.pass_rate = RateScale) <=> (ErrorRecords(Returned) = {})

\* C1 as amended: the returned pass_rate lies in [0, 1], and it is 1.0 if and
\* only if items_total > 0 and the erroring records are at most one in 20000
\* of items_total (the rate is rounded to four decimals); below 20000 records
\* that is: items_total > 0 and no record produced an error-severity issue.
C1_PassRateOneIffEvaluatedNoErrors ==
    Done => /\ response.summary.pass_rate >= 0
            /\ response.summary.pass_rate <= RateScale
            /\ (response.summary.pass_rate = RateScale)
                 <=> /\ response.summary.items_total > 0
                     /\ 2 * RateScale * Cardinality(ErrorRecords(Returned))
                          <= response.summary.items_total

\* a run of two records or more that returns pass_rate 1.0
C1_Witness ==
    /\ Done
    /\ response.summary.items_total >= 2
    /\ response.summary.pass_rate = RateScale
    /\ ErrorRecords(Returned) = {}

\* C2 as stated: error_rows is the set of the row indices that carry an
\* error-severity issue, and pass_rate is exactly
\* (items_total - |error_rows|) / items_total, 0 when items_total = 0.
C2_PassRateExact ==
    /\ error_rows = ErrorRecords(issues)
    /\ Done =>
         IF response.summary.items_total = 0 THEN response.summary.pass_rate = 0
         ELSE response.summary.pass_rate * response.summary.items_total
                = RateScale * (response.summary.items_total - Cardinality(error_rows))

\* C2 as amended: error_rows is the set of the row indices that carry an
\* error-severity issue (a record with several error issues is in it once),
\* and pass_rate is (items_total - |error_rows|) / items_total rounded to four
\* decimals: within half a ten-thousandth of it, 0 when items_total = 0.
C2_PassRateRounded ==
    /\ error_rows = ErrorRecords(issues)
    /\ Done =>
         IF response.summary.items_total = 0 THEN response.summary.pass_rate = 0
         ELSE LET t == response.summary.items_total
                  exact == RateScale * (t - Cardinality(error_rows))
                  got == response.summary.pass_rate * t
              IN  /\ 2 * (got - exact) <= t
                  /\ 2 * (exact - got) <= t

\* three records, one of them with several error issues, the others with none:
\* pass_rate is 0.6667
C2_Witness ==
    /\ Done
    /\ response.summary.items_total = 3
    /\ Cardinality(error_rows) = 1
    /\ \E i \in error_rows :
         Len(SelectSeq(RowIssues(Returned, i), LAMBDA it : it.severity = "error")) >= 2
    /\ response.summary.pass_rate = 6667

\* the id of record i as the rules read it, and whether an earlier record of
\* the run has the same non-empty id (an exact, case-sensitive comparison)
RecordId(i) == Value(records[i + 1], "id")
IsDuplicate(i) ==
    /\ RecordId(i) # <<>>
    /\ \E j \in 0..(i - 1) : RecordId(j) = RecordId(i)
DuplicateIssues(i) ==
    SelectSeq(Returned, LAMBDA it : it.rule_id = "OF-113" /\ it.row_index = i)

\* C3: in a run, OF-113 is emitted for a record exactly once if its non-empty
\* id equals the id of an earlier record of the run, and not at all otherwise.
C3_DuplicateIffSeenBefore ==
    Done => \A i \in 0..(Len(records) - 1) :
                Len(DuplicateIssues(i)) = IF IsDuplicate(i) THEN 1 ELSE 0

GtinOpportunities ==
    SelectSeq(Returned, LAMBDA it : it.field = "gtin" /\ it.severity = "opportunity")

\* C4: when gtin is a key of no record of the batch, the returned list holds
\* exactly one opportunity issue for gtin, with row_index and item_id null.
C4_OneGtinOpportunity ==
    (Done /\ \A i \in DOMAIN records : "gtin" \notin DOMAIN records[i])
        => /\ Len(GtinOpportunities) = 1
           /\ GtinOpportunities[1].row_index = NoRow
           /\ GtinOpportunities[1].item_id = None

\* C5: the empty sequence returns items_total = 0 and pass_rate = 0.0, and
\* every issue of the list is a dataset-level opportunity issue.
C5_EmptyInputOnlyOpportunities ==
    (Done /\ records = <<>>)
        => /\ response.summary.items_total = 0
           /\ response.summary.pass_rate = 0
           /\ \A k \in DOMAIN Returned : /\ Returned[k].severity = "opportunity"
                                         /\ Returned[k].row_index = NoRow

\* what the rules push for one raw record read through its own keys, as
\* record i of a run, on the day now, no id having been seen
OwnIssues(raw, i, now) == RecordRules(Fresh, raw, DOMAIN raw, i, {}, now).issues
NotDuplicateId(iss) == SelectSeq(iss, LAMBDA it : it.rule_id # "OF-113")

\* C6: apart from the duplicate-id issue, the issues returned for record i are
\* those of that record evaluated alone against the field lists with its own
\* keys (on one of the days of the run).
C6_RecordsIndependent ==
    Done => \A i \in 0..(Len(records) - 1) :
                \E now \in {FirstDay, LastDay} :
                    NotDuplicateId(RowIssues(Returned, i))
                        = NotDuplicateId(OwnIssues(records[i + 1], i, now))

HasErrorOn(i, field) ==
    \E k \in DOMAIN Returned : /\ Returned[k].row_index = i
                               /\ Returned[k].field = field
                               /\ Returned[k].severity = "error"

\* C7: for a record with enable_checkout = "true": with enable_search = "false"
\* there is an error on enable_checkout; with enable_search = "true" and no
\* seller_tos there is an error on seller_tos and none on enable_checkout.
C7_CheckoutDependencies ==
    Done => \A i \in 0..(Len(records) - 1) :
                LET raw == records[i + 1]
                IN  Value(raw, "enable_checkout") = <<"t", "r", "u", "e">> =>
                      /\ Value(raw, "enable_search") = <<"f", "a", "l", "s", "e">>
                           => HasErrorOn(i, "enable_checkout")
                      /\ (/\ Value(raw, "enable_search") = <<"t", "r", "u", "e">>
                          /\ Value(raw, "seller_tos") = <<>>)
                           => /\ HasErrorOn(i, "seller_tos")
                              /\ ~HasErrorOn(i, "enable_checkout")

\* a price of the form <number, at most two decimals> <space> <three capitals>,
\* and the number of it
WellFormedPrice(v) == FullMatch(CURRENCY_PRICE_RE, v, FALSE)
Amount(v) == Float(Split(v)[1])
RuleIssues(i, rule_id) ==
    SelectSeq(Returned, LAMBDA it : it.row_index = i /\ it.rule_id = rule_id)

\* C8: for a record with a well-formed price and sale_price: a sale_price
\* above the price gets OF-261; a sale_price not above it with no
\* sale_price_effective_date gets exactly one OF-262, on
\* sale_price_effective_date, and no OF-261.
C8_SalePriceCoupling ==
    Done => \A i \in 0..(Len(records) - 1) :
                LET raw == records[i + 1]
                    price == Value(raw, "price")
                    sale == Value(raw, "sale_price")
                IN  (WellFormedPrice(price) /\ WellFormedPrice(sale)) =>
                      /\ FloatGt(Amount(sale), Amount(price))
                           => Len(RuleIssues(i, "OF-261")) >= 1
                      /\ (/\ ~FloatGt(Amount(sale), Amount(price))
                          /\ Value(raw, "sale_price_effective_date") = <<>>)
                           => /\ Len(RuleIssues(i, "OF-262")) = 1
                              /\ RuleIssues(i, "OF-262")[1].field
                                   = "sale_price_effective_date"
                              /\ RuleIssues(i, "OF-262")[1].severity = "error"
                              /\ Len(RuleIssues(i, "OF-261")) = 0

\* C9: the batch of the one record WellFormed (id "A", both flags "false",
\* every required field well-formed, weight "1.5 lb", no optional field)
\* returns no error and no warning for it, items_total = 1 and pass_rate = 1.0.
C9_WellFormedRecordPasses ==
    (Done /\ records = <<WellFormed>>)
        => /\ \A k \in DOMAIN Returned :
                 Returned[k].row_index = 0
                     => Returned[k].severity \notin {"error", "warning"}
           /\ response.summary.items_total = 1
           /\ response.summary.pass_rate = RateScale

\* the rule families of section 4.2 of the specification, in its order:
\* boolean flags, identity, text, links, categorization, physical attributes,
\* pricing, availability and inventory, variants, pickup, merchant and trust,
\* relationship, recommended-but-empty
RuleFamilies ==
    <<{"OF-100", "OF-101", "OF-102"},
      {"OF-110", "OF-111", "OF-112", "OF-113"},
      {"OF-120", "OF-121", "OF-122", "OF-130", "OF-131", "OF-132"},
      {"OF-140", "OF-141", "OF-190", "OF-191", "OF-250", "OF-251"},
      {"OF-150", "OF-151", "OF-160", "OF-161", "OF-170", "OF-171"},
      {"OF-180", "OF-181", "OF-240", "OF-241"},
      {"OF-200", "OF-201", "OF-260", "OF-261", "OF-262", "OF-263", "OF-270"},
      {"OF-210", "OF-211", "OF-212", "OF-213", "OF-214", "OF-280"},
      {"OF-230", "OF-231", "OF-232", "OF-233", "OF-234"},
      {"OF-281", "OF-282"},
      {"OF-290", "OF-291", "OF-292", "OF-293", "OF-294", "OF-295", "OF-296",
       "OF-297", "OF-298"},
      {"OF-299"},
      {"OF-REC"}>>
FamilyOf(rule_id) == CHOOSE f \in DOMAIN RuleFamilies : rule_id \in RuleFamilies[f]

\* the rule ids in the order in which the loop body applies the rules
RuleOrder ==
    <<"OF-100", "OF-101", "OF-102", "OF-110", "OF-111", "OF-112", "OF-113",
      "OF-120", "OF-121", "OF-122", "OF-130", "OF-131", "OF-132", "OF-140",
      "OF-141", "OF-150", "OF-151", "OF-160", "OF-161", "OF-170", "OF-171",
      "OF-180", "OF-181", "OF-190", "OF-191", "OF-200", "OF-201", "OF-210",
      "OF-211", "OF-212", "OF-213", "OF-214", "OF-230", "OF-231", "OF-232",
      "OF-233", "OF-234", "OF-240", "OF-241", "OF-250", "OF-251", "OF-260",
      "OF-261", "OF-262", "OF-263", "OF-270", "OF-280", "OF-281", "OF-282",
      "OF-290", "OF-291", "OF-292", "OF-293", "OF-294", "OF-295", "OF-296",
      "OF-297", "OF-298", "OF-299", "OF-REC">>
RuleRanks == [r \in {RuleOrder[i] : i \in DOMAIN RuleOrder} |-> IndexOf(RuleOrder, r)]
RuleRank(rule_id) == RuleRanks[rule_id]

\* record order, and dataset-level issues after all record-level ones
InRecordOrder(iss) ==
    \A l \in DOMAIN iss : \A k \in 1..(l - 1) :
        /\ (iss[k].row_index # NoRow /\ iss[l].row_index # NoRow)
             => iss[k].row_index <= iss[l].row_index
        /\ ~(iss[k].row_index = NoRow /\ iss[l].row_index # NoRow)

IdIn(f, i) == Value(f.records[i + 1], "id")
IdsSeenBy(f) == {IdIn(f, j) : j \in 0..(f.idx - 1)} \ {<<>>}
\* frame f holds nothing but what its own call put there
OwnFrame(f) ==
    /\ f.seen_ids = IdsSeenBy(f)
    /\ f.error_rows = ErrorRecords(f.issues)
    /\ f.error_rows \subseteq 0..(f.idx - 1)
    /\ \A k \in DOMAIN f.issues :
           LET it == f.issues[k]
           IN  it.row_index # NoRow =>
                 /\ it.row_index \in 0..(f.idx - 1)
                 /\ it.item_id = IF IdIn(f, it.row_index) = <<>> THEN None
                                 ELSE IdIn(f, it.row_index)
                 /\ it.rule_id = "OF-113" =>
                       \E j \in 0..(it.row_index - 1) : IdIn(f, j) = IdIn(f, it.row_index)
    /\ f.pc = "done" => f.response.issues = f.issues

\* C11: under every interleaving of two calls, and of the calls that follow
\* them, each call has its own seen_ids, error_rows and issue list: seen_ids
\* holds the ids of the call's own records only, every error row and every
\* issue is one of the call's own records, and a duplicate-id error is there
\* only for an id that an earlier record of the same call has.
C11_RunsIsolated == OwnFrame(Frame) /\ OwnFrame(parked)

\* two calls have returned, a record of the one has the id of a record of the
\* other, the other has error rows, and the one has no error row and no
\* duplicate-id error
C11_Witness ==
    /\ Done
    /\ parked.pc = "done"
    /\ \E i \in 0..(Len(records) - 1), j \in 0..(Len(parked.records) - 1) :
           /\ IdIn(Frame, i) # <<>>
           /\ IdIn(Frame, i) = IdIn(parked, j)
    /\ parked.error_rows # {}
    /\ total > 0
    /\ error_rows = {}
    /\ \A k \in DOMAIN Returned : Returned[k].rule_id # "OF-113"

\* C12: a call on the record sequence of another call returns the issue list
\* that call returned: the list depends on the record sequence alone, and not
\* on the day on which date.today() is read.
C12_RerunIdentical ==
    (Done /\ parked.pc = "done" /\ parked.records = records)
        => response.issues = parked.response.issues

\* an error on a field of record i, or on the field for the whole feed
HasErrorFor(i, field) ==
    \E k \in DOMAIN Returned : /\ Returned[k].row_index \in {i, NoRow}
                               /\ Returned[k].field = field
                               /\ Returned[k].severity = "error"

\* C13: a record whose enable_search (enable_checkout) is anything but the
\* lower-case string "true" or "false" (another casing, empty, absent) gets
\* an error on that field.
C13_FlagsExactLowerCase ==
    Done => \A i \in 0..(Len(records) - 1) :
                \A flag \in {"enable_search", "enable_checkout"} :
                    Value(records[i + 1], flag) \notin BOOL_ENUM => HasErrorFor(i, flag)

\* the recommended fields that section 4.2 checks in a context only, and
\* whether the context of field k applies to a raw record
VariantFields == {"item_group_id", "item_group_title", "color", "size", "size_system", "gender"}
VariantContext(raw) ==
    \E k \in {"color", "size", "size_system", "gender"} : Value(raw, k) # <<>>
Applicable(raw, k) ==
    CASE k = "availability_date" ->
           ToLower(Value(raw, "availability")) = <<"p", "r", "e", "o", "r", "d", "e", "r">>
      [] k \in {"seller_privacy_policy", "seller_tos"} ->
           ToLower(Value(raw, "enable_checkout")) = <<"t", "r", "u", "e">>
      [] k \in VariantFields -> VariantContext(raw)
      [] OTHER -> TRUE
HasRecommendedEmpty(i, k) ==
    \E n \in DOMAIN Returned : /\ Returned[n].row_index = i
                               /\ Returned[n].field = k
                               /\ Returned[n].rule_id = "OF-REC"

\* C14: the recommended-but-empty warning is there for a recommended field of
\* a record exactly when the field is a key of the record with an empty value
\* and its context applies: preorder for availability_date, checkout for
\* seller_privacy_policy and seller_tos, a variant attribute for the variant
\* fields, and always for the other fields.
C14_RecommendedInContext ==
    Done => \A i \in 0..(Len(records) - 1) :
                \A n \in DOMAIN RECOMMENDED_FIELDS :
                    LET k == RECOMMENDED_FIELDS[n]
                        raw == records[i + 1]
                    IN  HasRecommendedEmpty(i, k)
                          <=> (k \in DOMAIN raw /\ Value(raw, k) = <<>> /\ Applicable(raw, k))

\* a required field is not a key of the first record, or there is no record
HeaderMissing ==
    records = <<>> \/ \E n \in DOMAIN REQUIRED_FIELDS : REQUIRED_FIELDS[n] \notin DOMAIN records[1]

\* C15: a result has one of two shapes. (a) When a required field is not a
\* key of the first record, or there is no record: items_total = 0,
\* pass_rate = 0.0, every issue is an OF-REQ-MISSING error with row_index
\* null, and no record is evaluated. (b) Otherwise: no issue has row_index
\* null, items_total is the number of records, and every row_index lies in
\* 0..items_total-1.
C15_TwoShapes ==
    Done =>
        IF HeaderMissing
        THEN /\ response.summary.items_total = 0
             /\ response.summary.pass_rate = 0
             /\ Returned # <<>>
             /\ \A k \in DOMAIN Returned : /\ Returned[k].rule_id = "OF-REQ-MISSING"
                                           /\ Returned[k].severity = "error"
                                           /\ Returned[k].row_index = NoRow
             /\ idx = 0 /\ total = 0 /\ seen_ids = {} /\ error_rows = {}
        ELSE /\ response.summary.items_total = Len(records)
             /\ \A k \in DOMAIN Returned :
                    /\ Returned[k].row_index # NoRow
                    /\ Returned[k].row_index \in 0..(response.summary.items_total - 1)

\* a feed of two records or more, the first of them without a required key
\* and a later one with all of them, is turned down at the header
C15_Witness ==
    /\ Done
    /\ Len(records) >= 2
    /\ HeaderMissing
    /\ \E i \in 2..Len(records) :
           \A n \in DOMAIN REQUIRED_FIELDS : REQUIRED_FIELDS[n] \in DOMAIN records[i]
    /\ response.summary.items_total = 0
====
